---- MODULE Spec2Model ----
(***************************************************************************)
(* Model of kyomi's OAuth2 loopback flow (src/main.rs, fn main) and of the *)
(* Spotify client (src/spotify.rs): the main task, the listener task, the  *)
(* per-connection handler tasks, the shared auth_code slot behind a tokio  *)
(* Mutex, the token file and the two HTTP operations.                      *)
(***************************************************************************)
EXTENDS Integers, Sequences, FiniteSets, TLC

\* ------------------------------------------------------------------ bounds
MaxLen == 2          \* longest short payload a peer sends, in bytes
MaxTok == 2          \* longest token string, in characters
MaxHandlers == 2     \* cap on the handler tasks the model tracks
MaxCalls == 3        \* cap on the client calls an arbitrary caller makes
LongExtra == 3       \* the long payload exceeds the read buffer by this much
MaxArtists == 2      \* longest artist list of a decoded response
MaxUrlLen == 1       \* longest configuration string, in characters

\* ------------------------------------------------------- program constants
BufSize == 512       \* let mut buffer = [0; 512]

\* ------------------------------------------------------------- input sets
\* bytes a peer may send: 'A', the two bytes of U+00E9 (0xC3 0xA9), each of
\* which is invalid UTF-8 on its own
ByteVals == {65, 195, 169}
\* characters of a token: a visible one and a line feed (not a legal header byte)
TokChars == {"a", "\n"}
ArtistNames == {"Radiohead", "Bjork"}

RECURSIVE SeqsUpTo(_, _)
SeqsUpTo(S, n) ==
    IF n = 0 THEN {<<>>}
    ELSE LET prev == SeqsUpTo(S, n - 1)
         IN  prev \cup {Append(s, x) : s \in prev, x \in S}

LongPayload == [i \in 1..(BufSize + LongExtra) |-> 65]
Payloads == SeqsUpTo(ByteVals, MaxLen) \cup {LongPayload}
TokStrings == SeqsUpTo(TokChars, MaxTok)

Min(a, b) == IF a < b THEN a ELSE b

\* -------------------------------------------------- String::from_utf8_lossy
\* core::str::lossy::Utf8Chunks: a byte past the end reads as 0
SafeGet(b, i) == IF i <= Len(b) THEN b[i] ELSE 0
IsCont(x) == x \div 64 = 2
Utf8CharWidth(x) ==
    IF x < 128 THEN 1
    ELSE IF x >= 194 /\ x <= 223 THEN 2
    ELSE IF x >= 224 /\ x <= 239 THEN 3
    ELSE IF x >= 240 /\ x <= 244 THEN 4
    ELSE 0
SecondOk3(x, y) ==
    \/ x = 224 /\ y >= 160 /\ y <= 191
    \/ x >= 225 /\ x <= 236 /\ IsCont(y)
    \/ x = 237 /\ y >= 128 /\ y <= 159
    \/ x >= 238 /\ x <= 239 /\ IsCont(y)
SecondOk4(x, y) ==
    \/ x = 240 /\ y >= 144 /\ y <= 191
    \/ x >= 241 /\ x <= 243 /\ IsCont(y)
    \/ x = 244 /\ y >= 128 /\ y <= 143
Replacement == 65533
\* the chunk starting at index i: how many bytes it takes and the code point
\* it yields (U+FFFD for a maximal invalid prefix)
Utf8Chunk(b, i) ==
    LET x == b[i]
        w == Utf8CharWidth(x)
        y == SafeGet(b, i + 1)
        z == SafeGet(b, i + 2)
        u == SafeGet(b, i + 3)
    IN  IF w = 1 THEN [len |-> 1, cp |-> x]
        ELSE IF w = 2 THEN
            IF IsCont(y) THEN [len |-> 2, cp |-> ((x - 192) * 64) + (y - 128)]
            ELSE [len |-> 1, cp |-> Replacement]
        ELSE IF w = 3 THEN
            IF ~SecondOk3(x, y) THEN [len |-> 1, cp |-> Replacement]
            ELSE IF ~IsCont(z) THEN [len |-> 2, cp |-> Replacement]
            ELSE [len |-> 3,
                  cp |-> ((x - 224) * 4096) + ((y - 128) * 64) + (z - 128)]
        ELSE IF w = 4 THEN
            IF ~SecondOk4(x, y) THEN [len |-> 1, cp |-> Replacement]
            ELSE IF ~IsCont(z) THEN [len |-> 2, cp |-> Replacement]
            ELSE IF ~IsCont(u) THEN [len |-> 3, cp |-> Replacement]
            ELSE [len |-> 4,
                  cp |-> ((x - 240) * 262144) + ((y - 128) * 4096)
                         + ((z - 128) * 64) + (u - 128)]
        ELSE [len |-> 1, cp |-> Replacement]

\* the chunks that start at positions i..j, and where the next chunk starts
\* (halving keeps the evaluation shallow on a full buffer; each half is bound
\* as a value, so it is evaluated once)
RECURSIVE LossyFrom(_, _, _)
LossyFrom(b, i, j) ==
    IF i > j THEN [out |-> <<>>, next |-> i]
    ELSE IF i = j THEN
        CHOOSE x \in {[out |-> <<c.cp>>, next |-> i + c.len] :
                         c \in {Utf8Chunk(b, i)}} : TRUE
    ELSE CHOOSE x \in UNION {
             {[out |-> l.out \o r.out, next |-> r.next] :
                  r \in {LossyFrom(b, l.next, j)}} :
             l \in {LossyFrom(b, i, (i + j) \div 2)}} : TRUE

\* text is a sequence of code points
FromUtf8Lossy(b) == LossyFrom(b, 1, Len(b)).out

\* str::as_bytes: the UTF-8 encoding of a text
EncodeChar(cp) ==
    IF cp < 128 THEN <<cp>>
    ELSE IF cp < 2048 THEN <<192 + (cp \div 64), 128 + (cp % 64)>>
    ELSE IF cp < 65536 THEN
        <<224 + (cp \div 4096), 128 + ((cp \div 64) % 64), 128 + (cp % 64)>>
    ELSE <<240 + (cp \div 262144), 128 + ((cp \div 4096) % 64),
           128 + ((cp \div 64) % 64), 128 + (cp % 64)>>
RECURSIVE EncodeRange(_, _, _)
EncodeRange(t, i, j) ==
    IF i > j THEN <<>>
    ELSE IF i = j THEN EncodeChar(t[i])
    ELSE LET mid == (i + j) \div 2
         IN  EncodeRange(t, i, mid) \o EncodeRange(t, mid + 1, j)
AsBytes(t) == EncodeRange(t, 1, Len(t))

\* --------------------------------------------------------------- values
None == [some |-> FALSE, val |-> <<>>]
Some(v) == [some |-> TRUE, val |-> v]
Absent == [state |-> "absent", text |-> <<>>]
Invalid == [state |-> "invalid", text |-> <<>>]
Text(t) == [state |-> "text", text |-> t]
Files == {Absent, Invalid} \cup {Text(t) : t \in TokStrings}
NoRet == [state |-> "none", val |-> <<>>, msg |-> ""]
Ok(v) == [state |-> "ok", val |-> v, msg |-> ""]
Err(m) == [state |-> "err", val |-> <<>>, msg |-> m]
Free == [who |-> "free", h |-> 0]
ByMain == [who |-> "main", h |-> 0]
ByHandler(h) == [who |-> "handler", h |-> h]

VARIABLES
    \* src/main.rs, fn main
    mPc,          \* position of the main task
    lPc,          \* position of the listener task (tokio::spawn, line 510)
    handlers,     \* the connection handler tasks (tokio::spawn, line 517)
    auth_code,    \* the String behind Arc<Mutex<..>> (line 506)
    lockHolder,   \* who holds the tokio Mutex of auth_code
    artist_name,  \* spotify_data.artist_name
    binds,        \* history: calls of TcpListener::bind
    accepts,      \* history: connections accepted
    slotWrites,   \* history: assignments to *auth_code
    browserOpens, \* history: calls of webbrowser::open
    \* src/spotify.rs, struct Spotify and its environment
    cPc,          \* position inside token() / get_currently_playing()
    op,           \* the operation called last
    token,        \* Spotify.token : Option<String>
    tokenFile,    \* the file "token"
    disk_token,   \* local of token(): the result of token_from_disk()
    data,         \* local of token(): the decoded TokenResponse
    tokenRet,     \* what the last token() returned
    getRet,       \* what the last get_currently_playing() returned
    codeArg,      \* the text main hands to token()
    postCode,     \* the code field of the last POST body
    httpRes,      \* how the request of the current call ended on the wire
    posts,        \* history: POSTs sent by the current token() call
    gets,         \* history: GETs sent by the current get call
    fileAtCall,   \* history: the token file when token() was called
    fileAtExchange, \* history: the token file when the exchange path began
    fileWrites,   \* history: creations/writes of the token file by this call
    obtained,     \* history: a non-empty disk token or an exchanged token exists
    tokenCalls,   \* history: calls of token()
    getCalls,     \* history: calls of get_currently_playing()
    spotify,      \* Spotify's configuration fields (lines 23-31)
    auth_url      \* the String auth_url() returned (main.rs:504), <<>> before

mainVars == <<mPc, lPc, handlers, auth_code, lockHolder, artist_name,
              binds, accepts, slotWrites, browserOpens>>
clientVars == <<cPc, op, token, tokenFile, disk_token, data, tokenRet, getRet,
                codeArg, postCode, httpRes, posts, gets, fileAtCall, fileAtExchange,
                fileWrites, obtained, tokenCalls, getCalls>>
urlVars == <<spotify, auth_url>>
vars == <<mainVars, clientVars, urlVars>>

\* ------------------------------------------- Spotify configuration, auth_url
\* a string is a sequence of one-character strings
UrlChars == {"a", "&", "%"}
UrlTexts == SeqsUpTo(UrlChars, MaxUrlLen)

\* urlencoding::encode leaves exactly these bytes as they are
Unreserved ==
    {"a", "b", "c", "d", "e", "f", "g", "h", "i", "j", "k", "l", "m",
     "n", "o", "p", "q", "r", "s", "t", "u", "v", "w", "x", "y", "z",
     "A", "B", "C", "D", "E", "F", "G", "H", "I", "J", "K", "L", "M",
     "N", "O", "P", "Q", "R", "S", "T", "U", "V", "W", "X", "Y", "Z",
     "0", "1", "2", "3", "4", "5", "6", "7", "8", "9", "-", "_", ".",
     "~"}
\* the byte of a character that is not left as it is
CharCode(c) ==
    CASE c = " " -> 32
      [] c = "%" -> 37
      [] c = "&" -> 38
      [] c = "/" -> 47
      [] c = ":" -> 58
      [] c = "=" -> 61
      [] c = "?" -> 63
HexDigits ==
    <<"0", "1", "2", "3", "4", "5", "6", "7", "8", "9",
      "A", "B", "C", "D", "E", "F">>
EncodeByte(c) ==
    IF c \in Unreserved THEN <<c>>
    ELSE <<"%", HexDigits[(CharCode(c) \div 16) + 1],
                HexDigits[(CharCode(c) % 16) + 1]>>
RECURSIVE UrlEncodeFrom(_, _)
UrlEncodeFrom(t, i) ==
    IF i > Len(t) THEN <<>> ELSE EncodeByte(t[i]) \o UrlEncodeFrom(t, i + 1)

\* slip: the value is interpolated as it is
UrlEncode_Raw(t) == t

\* urlencoding::encode (lines 75-79)
UrlEncode(t) == UrlEncodeFrom(t, 1)

\* Option<String>::unwrap_or_default
UnwrapOrDefault(o) == IF o.some THEN o.val ELSE <<>>
\* bool::to_string
BoolToString(b) ==
    IF b THEN <<"t", "r", "u", "e">> ELSE <<"f", "a", "l", "s", "e">>

AuthorizeBase ==
    <<"h", "t", "t", "p", "s", ":", "/", "/", "a", "c", "c", "o",
      "u", "n", "t", "s", ".", "s", "p", "o", "t", "i", "f", "y",
      ".", "c", "o", "m", "/", "a", "u", "t", "h", "o", "r", "i",
      "z", "e">>
ParamClientId ==
    <<"?", "c", "l", "i", "e", "n", "t", "_", "i", "d", "=">>
ParamResponseType ==
    <<"&", "r", "e", "s", "p", "o", "n", "s", "e", "_", "t", "y",
      "p", "e", "=", "c", "o", "d", "e">>
ParamRedirectUri ==
    <<"&", "r", "e", "d", "i", "r", "e", "c", "t", "_", "u", "r",
      "i", "=">>
ParamState ==
    <<"&", "s", "t", "a", "t", "e", "=">>
ParamScope ==
    <<"&", "s", "c", "o", "p", "e", "=">>
ParamShowDialog ==
    <<"&", "s", "h", "o", "w", "_", "d", "i", "a", "l", "o", "g", "=">>

\* Spotify::auth_url (lines 71-82)
AuthUrl(cfg) ==
    AuthorizeBase
        \o ParamClientId \o UrlEncode(cfg.client_id)
        \o ParamResponseType
        \o ParamRedirectUri \o UrlEncode(cfg.redirect_uri)
        \o ParamState \o UrlEncode(UnwrapOrDefault(cfg.state))
        \o ParamScope \o UrlEncode(UnwrapOrDefault(cfg.scope))
        \o ParamShowDialog \o UrlEncode(BoolToString(cfg.show_dialog))

\* Spotify::from_client_id (lines 49-54): the other fields are Default
FromClientId(id) ==
    [client_id |-> id, redirect_uri |-> <<>>, state |-> None,
     scope |-> None, show_dialog |-> FALSE]

\* the constants main passes (main.rs:499-501); src/ does not hold their
\* definitions: the redirect target is the fixed local address, the client
\* id a placeholder
CLIENT_ID ==
    <<"c", "l", "i", "e", "n", "t", "i", "d">>
REDIRECT_URI ==
    <<"h", "t", "t", "p", ":", "/", "/", "l", "o", "c", "a", "l",
      "h", "o", "s", "t", ":", "8", "0", "0", "0">>
MainScope ==
    <<"u", "s", "e", "r", "-", "r", "e", "a", "d", "-", "p", "r",
      "i", "v", "a", "t", "e", " ", "u", "s", "e", "r", "-", "r",
      "e", "a", "d", "-", "p", "l", "a", "y", "b", "a", "c", "k",
      "-", "s", "t", "a", "t", "e", " ", "u", "s", "e", "r", "-",
      "r", "e", "a", "d", "-", "c", "u", "r", "r", "e", "n", "t",
      "l", "y", "-", "p", "l", "a", "y", "i", "n", "g">>
\* main.rs:499-502: the configuration main builds
MainConfig ==
    [FromClientId(CLIENT_ID) EXCEPT
        !.scope = Some(MainScope), !.redirect_uri = REDIRECT_URI,
        !.show_dialog = FALSE]


NoData == [access_token |-> <<>>, refresh_token |-> <<>>]
NoResp == [state |-> "none", item |-> FALSE, artists |-> <<>>]

\* everything but the configuration
BaseInit ==
    /\ mPc = "spawn"
    /\ lPc = "none"
    /\ handlers = <<>>
    /\ auth_code = <<>>
    /\ lockHolder = Free
    /\ artist_name = ""
    /\ binds = 0
    /\ accepts = 0
    /\ slotWrites = 0
    /\ browserOpens = 0
    /\ cPc = "idle"
    /\ op = "none"
    /\ token = None
    /\ tokenFile \in Files
    /\ disk_token = NoRet
    /\ data = NoData
    /\ tokenRet = NoRet
    /\ getRet = NoResp
    /\ codeArg = <<>>
    /\ postCode = <<>>
    /\ httpRes = "none"
    /\ posts = 0
    /\ gets = 0
    /\ fileAtCall = tokenFile
    /\ fileAtExchange = tokenFile
    /\ fileWrites = 0
    /\ obtained = FALSE
    /\ tokenCalls = 0
    /\ getCalls = 0
    /\ auth_url = <<>>

\* the program: main's configuration
Init == BaseInit /\ spotify = MainConfig

\* =================================================== src/spotify.rs, Spotify
\* the constant the POST body interpolates as {AUTH_CODE} (line 124): "CODE"
AUTH_CODE == <<67, 79, 68, 69>>
RefreshTokens == {<<"r">>}
TokenResponses ==
    [access_token : TokStrings, refresh_token : RefreshTokens]
Responses ==
    {[state |-> "ok", item |-> FALSE, artists |-> <<>>]}
    \cup {[state |-> "ok", item |-> TRUE, artists |-> a] :
              a \in SeqsUpTo(ArtistNames, MaxArtists)}

\* reqwest HeaderValue parse: a line feed is not a legal header byte
HeaderValid(t) == \A i \in 1..Len(t) : t[i] # "\n"

\* token(): a caller invokes it with the captured text
TokenCall(code) ==
    /\ cPc = "idle"
    /\ cPc' = "t_disk"
    /\ op' = "token"
    /\ codeArg' = code
    /\ disk_token' = NoRet
    /\ data' = NoData
    /\ tokenRet' = NoRet
    /\ httpRes' = "none"
    /\ posts' = 0
    /\ fileWrites' = 0
    /\ fileAtCall' = tokenFile
    /\ fileAtExchange' = tokenFile
    /\ tokenCalls' = tokenCalls + 1
    /\ UNCHANGED <<token, tokenFile, getRet, postCode, gets, obtained, getCalls>>

\* slip: the Err arm does not create the file
FileAfterMissing_NotCreated == Absent

\* token_from_disk, Err arm: File::create("token") leaves an empty file
FileAfterMissing == Text(<<>>)

\* token_from_disk (lines 84-97)
TokenFromDisk ==
    /\ cPc = "t_disk"
    /\ \/ /\ tokenFile.state = "text"
          /\ token' = Some(tokenFile.text)
          /\ disk_token' = Ok(tokenFile.text)
          /\ cPc' = "t_check"
          /\ UNCHANGED <<tokenFile, fileWrites>>
       \/ /\ tokenFile.state = "absent"
          /\ tokenFile' = FileAfterMissing
          /\ fileWrites' = fileWrites + 1
          /\ disk_token' = Err("no token saved")
          /\ cPc' = "t_check"
          /\ UNCHANGED token
       \/ /\ tokenFile.state = "invalid"
          \* read_to_string(..).unwrap() on bytes that are not UTF-8
          /\ cPc' = "aborted"
          /\ UNCHANGED <<token, tokenFile, disk_token, fileWrites>>
    /\ UNCHANGED <<op, data, tokenRet, getRet, codeArg, postCode, httpRes,
                   posts, gets, fileAtCall, fileAtExchange, obtained,
                   tokenCalls, getCalls>>

\* slip: a one-character token is not taken as cached
FastPath_TooStrict(d) == d.state = "ok" /\ Len(d.val) > 1

\* the test of line 101
FastPath(d) == d.state = "ok" /\ Len(d.val) > 0

\* lines 101-104: the cached token is returned
TokenFastPath ==
    /\ cPc = "t_check"
    /\ FastPath(disk_token)
    /\ token' = Some(disk_token.val)
    /\ tokenRet' = Ok(disk_token.val)
    /\ obtained' = TRUE
    /\ cPc' = "idle"
    /\ UNCHANGED <<op, tokenFile, disk_token, data, getRet, codeArg, postCode,
                   httpRes, posts, gets, fileAtCall, fileAtExchange,
                   fileWrites, tokenCalls, getCalls>>

\* lines 105-125: url, headers and body of the exchange request
TokenBuildRequest ==
    /\ cPc = "t_check"
    /\ ~FastPath(disk_token)
    /\ fileAtExchange' = tokenFile
    /\ cPc' = "t_post"
    /\ UNCHANGED <<op, token, tokenFile, disk_token, data, tokenRet, getRet,
                   codeArg, postCode, httpRes, posts, gets, fileAtCall,
                   fileWrites, obtained, tokenCalls, getCalls>>

\* line 127: client.post(url)...send()
TokenPost ==
    /\ cPc = "t_post"
    /\ posts' = posts + 1
    /\ postCode' = AUTH_CODE
    /\ cPc' = "t_await"
    /\ UNCHANGED <<op, token, tokenFile, disk_token, data, tokenRet, getRet,
                   codeArg, httpRes, gets, fileAtCall, fileAtExchange,
                   fileWrites, obtained, tokenCalls, getCalls>>

\* slip: a failed send() is retried
AfterTransportError_Retry == "t_post"

\* where token() goes after a failed send(): it returns (line 133)
AfterTransportError == "idle"

\* lines 131-134: send() failed
TokenTransportErr ==
    /\ cPc = "t_await"
    /\ httpRes' = "transport_err"
    /\ tokenRet' = Err("Server Error")
    /\ cPc' = AfterTransportError
    /\ UNCHANGED <<op, token, tokenFile, disk_token, data, getRet, codeArg,
                   postCode, posts, gets, fileAtCall, fileAtExchange,
                   fileWrites, obtained, tokenCalls, getCalls>>

\* lines 144-147: the body is not a TokenResponse
TokenDecodeErr ==
    /\ cPc = "t_await"
    /\ httpRes' = "decode_err"
    /\ tokenRet' = Err("json parsing error")
    /\ cPc' = "idle"
    /\ UNCHANGED <<op, token, tokenFile, disk_token, data, getRet, codeArg,
                   postCode, posts, gets, fileAtCall, fileAtExchange,
                   fileWrites, obtained, tokenCalls, getCalls>>

\* lines 138-140: the body decodes; the access token is kept in memory
TokenDecodeOk(d) ==
    /\ cPc = "t_await"
    /\ httpRes' = "ok"
    /\ data' = d
    /\ token' = Some(d.access_token)
    /\ cPc' = "t_write"
    /\ UNCHANGED <<op, tokenFile, disk_token, tokenRet, getRet, codeArg,
                   postCode, posts, gets, fileAtCall, fileAtExchange,
                   fileWrites, obtained, tokenCalls, getCalls>>

\* slip: the refresh token is persisted instead of the access token
PersistedValue_Refresh(d) == d.refresh_token

\* the string handed to write_token_to_disk (line 141)
PersistedValue(d) == d.access_token

\* write_token_to_disk (lines 177-180) and the return of line 142
WriteTokenToDisk ==
    /\ cPc = "t_write"
    /\ tokenFile' = Text(PersistedValue(data))
    /\ fileWrites' = fileWrites + 1
    /\ tokenRet' = Ok(data.access_token)
    /\ obtained' = TRUE
    /\ cPc' = "idle"
    /\ UNCHANGED <<op, token, disk_token, data, getRet, codeArg, postCode,
                   httpRes, posts, gets, fileAtCall, fileAtExchange,
                   tokenCalls, getCalls>>

TokenStep ==
    \/ TokenFromDisk
    \/ TokenFastPath
    \/ TokenBuildRequest
    \/ TokenPost
    \/ TokenTransportErr
    \/ TokenDecodeErr
    \/ \E d \in TokenResponses : TokenDecodeOk(d)
    \/ WriteTokenToDisk

\* get_currently_playing(): a caller invokes it
GetCall ==
    /\ cPc = "idle"
    /\ cPc' = "g_hdr"
    /\ op' = "get"
    /\ getRet' = NoResp
    /\ httpRes' = "none"
    /\ gets' = 0
    /\ getCalls' = getCalls + 1
    /\ UNCHANGED <<token, tokenFile, disk_token, data, tokenRet, codeArg,
                   postCode, posts, fileAtCall, fileAtExchange, fileWrites,
                   obtained, tokenCalls>>

\* line 162: self.token.clone().unwrap() on None
GetNoToken ==
    /\ cPc = "g_hdr"
    /\ ~token.some
    /\ cPc' = "aborted"
    /\ UNCHANGED <<op, token, tokenFile, disk_token, data, tokenRet, getRet,
                   codeArg, postCode, httpRes, posts, gets, fileAtCall,
                   fileAtExchange, fileWrites, obtained, tokenCalls, getCalls>>

\* lines 162-164: "Bearer <token>".parse().unwrap() on an illegal header value
GetBadHeader ==
    /\ cPc = "g_hdr"
    /\ token.some
    /\ ~HeaderValid(token.val)
    /\ cPc' = "aborted"
    /\ UNCHANGED <<op, token, tokenFile, disk_token, data, tokenRet, getRet,
                   codeArg, postCode, httpRes, posts, gets, fileAtCall,
                   fileAtExchange, fileWrites, obtained, tokenCalls, getCalls>>

\* lines 167-170: client.get(url).headers(headers).send()
GetSend ==
    /\ cPc = "g_hdr"
    /\ token.some
    /\ HeaderValid(token.val)
    /\ gets' = gets + 1
    /\ cPc' = "g_await"
    /\ UNCHANGED <<op, token, tokenFile, disk_token, data, tokenRet, getRet,
                   codeArg, postCode, httpRes, posts, fileAtCall,
                   fileAtExchange, fileWrites, obtained, tokenCalls, getCalls>>

\* lines 171-173: either `?` returns the error
GetFail(kind) ==
    /\ cPc = "g_await"
    /\ httpRes' = kind
    /\ getRet' = [state |-> "err", item |-> FALSE, artists |-> <<>>]
    /\ cPc' = "idle"
    /\ UNCHANGED <<op, token, tokenFile, disk_token, data, tokenRet, codeArg,
                   postCode, posts, gets, fileAtCall, fileAtExchange,
                   fileWrites, obtained, tokenCalls, getCalls>>

\* line 175: the decoded CurrentlyPlayingResponse
GetOk(r) ==
    /\ cPc = "g_await"
    /\ httpRes' = "ok"
    /\ getRet' = r
    /\ cPc' = "idle"
    /\ UNCHANGED <<op, token, tokenFile, disk_token, data, tokenRet, codeArg,
                   postCode, posts, gets, fileAtCall, fileAtExchange,
                   fileWrites, obtained, tokenCalls, getCalls>>

GetStep ==
    \/ GetNoToken
    \/ GetBadHeader
    \/ GetSend
    \/ \E kind \in {"transport_err", "decode_err"} : GetFail(kind)
    \/ \E r \in Responses : GetOk(r)

\* ======================================================= src/main.rs, main
\* the sizes one socket.read may return for a peer that sent `conn`: any
\* positive count up to the buffer and the data at hand (short counts up to
\* MaxLen and the full count are drawn)
ReadSizes(conn) ==
    {n \in 1..Min(BufSize, Len(conn)) :
        n <= MaxLen \/ n = Min(BufSize, Len(conn))}

NewHandler(payload) ==
    [pc |-> "read", conn |-> payload, buffer |-> <<>>, n |-> 0, fail |-> "none"]

\* lines 504-510: auth_url() is taken, the listener task spawned
MainSpawn ==
    /\ mPc = "spawn"
    /\ auth_url' = AuthUrl(spotify)
    /\ lPc' = "bind"
    /\ mPc' = "browser"
    /\ UNCHANGED <<handlers, auth_code, lockHolder, artist_name, binds,
                   accepts, slotWrites, browserOpens, clientVars, spotify>>

\* slip: a stored non-empty token sends main straight to token()
AfterBrowser_SkipWhenCached(f) ==
    IF f.state = "text" /\ f.text # <<>> THEN "lock" ELSE "join"

\* lines 542-543: the join follows the browser unconditionally; main does
\* not look at the token file
AfterBrowser(f) == "join"

\* line 542: webbrowser::open(..).unwrap(), opened
MainBrowser ==
    /\ mPc = "browser"
    /\ browserOpens' = browserOpens + 1
    /\ mPc' = AfterBrowser(tokenFile)
    /\ UNCHANGED <<lPc, handlers, auth_code, lockHolder, artist_name, binds,
                   accepts, slotWrites, clientVars, urlVars>>

\* line 542: webbrowser::open(..).unwrap(), no browser
MainBrowserFail ==
    /\ mPc = "browser"
    /\ browserOpens' = browserOpens + 1
    /\ mPc' = "panicked"
    /\ UNCHANGED <<lPc, handlers, auth_code, lockHolder, artist_name, binds,
                   accepts, slotWrites, clientVars, urlVars>>

\* slip: the JoinError is ignored
JoinResult_Ignored(l) == "lock"

\* task.await.unwrap(): a JoinError of the panicked listener panics main
JoinResult(l) == IF l = "panicked" THEN "panicked" ELSE "lock"

\* slip: the join gives up on a listener that is still accepting
JoinReady_TimedOut(l) == l \in {"done", "panicked", "accept"}

\* task.await resolves only when the listener task has ended; nothing
\* bounds the wait
JoinReady(l) == l \in {"done", "panicked"}

\* line 543: task.await.unwrap()
MainJoin ==
    /\ mPc = "join"
    /\ JoinReady(lPc)
    /\ mPc' = JoinResult(lPc)
    /\ UNCHANGED <<lPc, handlers, auth_code, lockHolder, artist_name, binds,
                   accepts, slotWrites, browserOpens, clientVars, urlVars>>

\* lines 548-549: auth_code.lock().await.as_ref() is handed to token()
MainCallToken ==
    /\ mPc = "lock"
    /\ lockHolder = Free
    /\ lockHolder' = ByMain
    /\ TokenCall(auth_code)
    /\ mPc' = "token"
    /\ UNCHANGED <<lPc, handlers, auth_code, artist_name, binds, accepts,
                   slotWrites, browserOpens, urlVars>>

\* slip: the guard is bound to a variable that lives to the end of main
GuardAfterToken_Held == ByMain

\* the guard is a temporary of the statement of lines 548-551: it is dropped
\* when the statement ends or unwinds
GuardAfterToken == Free

\* lines 548-551: main runs token() with the guard alive; .unwrap() panics on
\* Err; the guard is dropped at the end of the statement or while unwinding
MainToken ==
    /\ mPc = "token"
    /\ TokenStep
    /\ IF cPc' = "idle"
       THEN /\ mPc' = IF tokenRet'.state = "ok" THEN "get" ELSE "panicked"
            /\ lockHolder' = GuardAfterToken
       ELSE IF cPc' = "aborted"
       THEN /\ mPc' = "panicked"
            /\ lockHolder' = GuardAfterToken
       ELSE UNCHANGED <<mPc, lockHolder>>
    /\ UNCHANGED <<lPc, handlers, auth_code, artist_name, binds, accepts,
                   slotWrites, browserOpens, urlVars>>

\* line 552: spotify.get_currently_playing()
MainCallGet ==
    /\ mPc = "get"
    /\ GetCall
    /\ mPc' = "in_get"
    /\ UNCHANGED <<lPc, handlers, auth_code, lockHolder, artist_name, binds,
                   accepts, slotWrites, browserOpens, urlVars>>

\* line 552: main runs get_currently_playing()
MainGet ==
    /\ mPc = "in_get"
    /\ GetStep
    /\ mPc' = IF cPc' = "idle" THEN "display"
              ELSE IF cPc' = "aborted" THEN "panicked" ELSE mPc
    /\ UNCHANGED <<lPc, handlers, auth_code, lockHolder, artist_name, binds,
                   accepts, slotWrites, browserOpens, urlVars>>

\* line 555: .unwrap().item.unwrap().album.artists[0] can be evaluated
Displayable(r) == r.state = "ok" /\ r.item /\ Len(r.artists) >= 1

\* slip: the last artist of the album is taken
DisplayedArtist_Last(r) == r.artists[Len(r.artists)]

\* line 555: item.unwrap().album.artists[0].name
DisplayedArtist(r) == r.artists[1]

\* lines 554-557: the artist name is copied into the display record
MainDisplay ==
    /\ mPc = "display"
    /\ Displayable(getRet)
    /\ artist_name' = DisplayedArtist(getRet)
    /\ mPc' = "ui"
    /\ UNCHANGED <<lPc, handlers, auth_code, lockHolder, binds, accepts,
                   slotWrites, browserOpens, clientVars, urlVars>>

\* line 555: an Err, a missing item or an empty artist list panics
MainDisplayPanic ==
    /\ mPc = "display"
    /\ ~Displayable(getRet)
    /\ mPc' = "panicked"
    /\ UNCHANGED <<lPc, handlers, auth_code, lockHolder, artist_name, binds,
                   accepts, slotWrites, browserOpens, clientVars, urlVars>>

\* ------------------------------------------------ listener task (510-538)
\* line 511: TcpListener::bind("localhost:8000") succeeded
ListenerBind ==
    /\ lPc = "bind"
    /\ binds' = binds + 1
    /\ lPc' = "accept"
    /\ UNCHANGED <<mPc, handlers, auth_code, lockHolder, artist_name,
                   accepts, slotWrites, browserOpens, clientVars, urlVars>>

\* line 511: bind failed, .unwrap() panics the listener task
ListenerBindFail ==
    /\ lPc = "bind"
    /\ binds' = binds + 1
    /\ lPc' = "panicked"
    /\ UNCHANGED <<mPc, handlers, auth_code, lockHolder, artist_name,
                   accepts, slotWrites, browserOpens, clientVars, urlVars>>

\* slip: the accept loop of lines 513/537 is active
AfterAccept_Loop == "accept"

\* where the listener goes after spawning a handler: the loop is commented
\* out (lines 513, 537), the task ends
AfterAccept == "done"

\* lines 514-517: a connection is accepted and its handler spawned
ListenerAccept(payload) ==
    /\ lPc = "accept"
    /\ Len(handlers) < MaxHandlers
    /\ accepts' = accepts + 1
    /\ handlers' = Append(handlers, NewHandler(payload))
    /\ lPc' = AfterAccept
    /\ UNCHANGED <<mPc, auth_code, lockHolder, artist_name, binds,
                   slotWrites, browserOpens, clientVars, urlVars>>

\* line 514: accept() returned Err, the if let is skipped
ListenerAcceptErr ==
    /\ lPc = "accept"
    /\ lPc' = "done"
    /\ UNCHANGED <<mPc, handlers, auth_code, lockHolder, artist_name, binds,
                   accepts, slotWrites, browserOpens, clientVars, urlVars>>

\* ------------------------------------------------- handler task (517-535)
SetH(h, r) == [handlers EXCEPT ![h] = r]

\* line 519: socket.read returned Ok(n), n > 0
HandlerRead(h, n) ==
    /\ handlers[h].pc = "read"
    /\ n \in ReadSizes(handlers[h].conn)
    /\ handlers' = SetH(h, [handlers[h] EXCEPT
                              !.buffer = SubSeq(handlers[h].conn, 1, n),
                              !.n = n, !.pc = "store"])
    /\ UNCHANGED <<mPc, lPc, auth_code, lockHolder, artist_name, binds,
                   accepts, slotWrites, browserOpens, clientVars, urlVars>>

\* line 519: socket.read returned Ok(0), the peer closed without data
HandlerReadZero(h) ==
    /\ handlers[h].pc = "read"
    /\ handlers[h].conn = <<>>
    /\ handlers' = SetH(h, [handlers[h] EXCEPT !.n = 0, !.pc = "ack0"])
    /\ UNCHANGED <<mPc, lPc, auth_code, lockHolder, artist_name, binds,
                   accepts, slotWrites, browserOpens, clientVars, urlVars>>

\* line 519: socket.read returned Err, the if let is skipped
HandlerReadErr(h) ==
    /\ handlers[h].pc = "read"
    /\ handlers' = SetH(h, [handlers[h] EXCEPT !.fail = "read", !.pc = "done"])
    /\ UNCHANGED <<mPc, lPc, auth_code, lockHolder, artist_name, binds,
                   accepts, slotWrites, browserOpens, clientVars, urlVars>>

\* slip: the slice stops one byte short of what was read
SlotText_OffByOne(buffer, n) == FromUtf8Lossy(SubSeq(buffer, 1, n - 1))

\* line 524: the text stored in the slot
SlotText(buffer, n) == FromUtf8Lossy(SubSeq(buffer, 1, n))

\* lines 523-524: the lock is taken and the slot assigned
HandlerStore(h) ==
    /\ handlers[h].pc = "store"
    /\ lockHolder = Free
    /\ lockHolder' = ByHandler(h)
    /\ auth_code' = SlotText(handlers[h].buffer, handlers[h].n)
    /\ slotWrites' = slotWrites + 1
    /\ handlers' = SetH(h, [handlers[h] EXCEPT !.pc = "ack"])
    /\ UNCHANGED <<mPc, lPc, artist_name, binds, accepts, browserOpens,
                   clientVars, urlVars>>

\* lines 526-529: the acknowledgment is written, the guard dropped
HandlerAck(h) ==
    /\ handlers[h].pc = "ack"
    /\ lockHolder' = Free
    /\ handlers' = SetH(h, [handlers[h] EXCEPT !.pc = "done"])
    /\ UNCHANGED <<mPc, lPc, auth_code, artist_name, binds, accepts,
                   slotWrites, browserOpens, clientVars, urlVars>>

\* slip: the guard is leaked by the panicking task
LockAfterHandlerPanic_Leaked(h) == ByHandler(h)

\* a tokio MutexGuard is dropped while the task unwinds
LockAfterHandlerPanic(h) == Free

\* lines 526-529: write_all failed, .unwrap() panics the handler task
HandlerAckFail(h) ==
    /\ handlers[h].pc = "ack"
    /\ lockHolder' = LockAfterHandlerPanic(h)
    /\ handlers' = SetH(h, [handlers[h] EXCEPT
                              !.fail = "write", !.pc = "panicked"])
    /\ UNCHANGED <<mPc, lPc, auth_code, artist_name, binds, accepts,
                   slotWrites, browserOpens, clientVars, urlVars>>

\* lines 530-533: nothing was read, the other acknowledgment is written
HandlerAckZero(h) ==
    /\ handlers[h].pc = "ack0"
    /\ handlers' = SetH(h, [handlers[h] EXCEPT !.pc = "done"])
    /\ UNCHANGED <<mPc, lPc, auth_code, lockHolder, artist_name, binds,
                   accepts, slotWrites, browserOpens, clientVars, urlVars>>

\* line 532: write_all failed, .unwrap() panics the handler task
HandlerAckZeroFail(h) ==
    /\ handlers[h].pc = "ack0"
    /\ handlers' = SetH(h, [handlers[h] EXCEPT
                              !.fail = "write", !.pc = "panicked"])
    /\ UNCHANGED <<mPc, lPc, auth_code, lockHolder, artist_name, binds,
                   accepts, slotWrites, browserOpens, clientVars, urlVars>>

\* ------------------------------------------------------- the whole program
Next ==
    \/ MainSpawn
    \/ MainBrowser
    \/ MainBrowserFail
    \/ MainJoin
    \/ MainCallToken
    \/ MainToken
    \/ MainCallGet
    \/ MainGet
    \/ MainDisplay
    \/ MainDisplayPanic
    \/ ListenerBind
    \/ ListenerBindFail
    \/ \E payload \in Payloads : ListenerAccept(payload)
    \/ ListenerAcceptErr
    \/ \E h \in DOMAIN handlers :
          \/ \E n \in ReadSizes(handlers[h].conn) : HandlerRead(h, n)
          \/ HandlerReadZero(h)
          \/ HandlerReadErr(h)
          \/ HandlerStore(h)
          \/ HandlerAck(h)
          \/ HandlerAckFail(h)
          \/ HandlerAckZero(h)
          \/ HandlerAckZeroFail(h)

Spec == Init /\ [][Next]_vars

\* the program under its scheduler: the runtime polls a task that can run,
\* the tokio Mutex hands the lock to a waiter once it is free, and socket
\* writes and the HTTP exchange come to an end; no connection, read or
\* browser is promised
FairSpec ==
    /\ Spec
    /\ WF_vars(MainCallToken)
    /\ WF_vars(MainToken)
    /\ \A h \in 1..MaxHandlers :
          /\ WF_vars(h \in DOMAIN handlers /\ HandlerStore(h))
          /\ WF_vars(h \in DOMAIN handlers
                     /\ (HandlerAck(h) \/ HandlerAckFail(h)))

\* ------------------------------------- the client under an arbitrary caller
CallerCodes == {<<>>, <<65>>}

CallerToken ==
    /\ tokenCalls + getCalls < MaxCalls
    /\ \E code \in CallerCodes : TokenCall(code)
    /\ UNCHANGED <<mainVars, urlVars>>

CallerGet ==
    /\ tokenCalls + getCalls < MaxCalls
    /\ GetCall
    /\ UNCHANGED <<mainVars, urlVars>>

CallerInToken == TokenStep /\ UNCHANGED <<mainVars, urlVars>>

CallerInGet == GetStep /\ UNCHANGED <<mainVars, urlVars>>

ClientNext ==
    \/ CallerToken
    \/ CallerGet
    \/ CallerInToken
    \/ CallerInGet

ClientSpec == Init /\ [][ClientNext]_vars

\* --------------------------------- the configuration builder and auth_url()
\* a caller chains the builder methods and then asks for the URL
UrlInit ==
    /\ BaseInit
    /\ tokenFile = Absent
    /\ \E id \in UrlTexts : spotify = FromClientId(id)

\* Spotify::with_state (lines 56-59)
WithState(st) ==
    /\ auth_url = <<>>
    /\ spotify' = [spotify EXCEPT !.state = Some(st)]
    /\ UNCHANGED <<auth_url, mainVars, clientVars>>

\* Spotify::with_scope (lines 61-64)
WithScope(sc) ==
    /\ auth_url = <<>>
    /\ spotify' = [spotify EXCEPT !.scope = Some(sc)]
    /\ UNCHANGED <<auth_url, mainVars, clientVars>>

\* Spotify::with_redirect_uri (lines 66-69)
WithRedirectUri(uri) ==
    /\ auth_url = <<>>
    /\ spotify' = [spotify EXCEPT !.redirect_uri = uri]
    /\ UNCHANGED <<auth_url, mainVars, clientVars>>

\* the pub field show_dialog is assigned (main.rs:502)
SetShowDialog(b) ==
    /\ auth_url = <<>>
    /\ spotify' = [spotify EXCEPT !.show_dialog = b]
    /\ UNCHANGED <<auth_url, mainVars, clientVars>>

\* Spotify::auth_url(&self) (lines 71-82)
AuthUrlCall ==
    /\ auth_url = <<>>
    /\ auth_url' = AuthUrl(spotify)
    /\ UNCHANGED <<spotify, mainVars, clientVars>>

UrlNext ==
    \/ \E st \in UrlTexts : WithState(st)
    \/ \E sc \in UrlTexts : WithScope(sc)
    \/ \E uri \in UrlTexts : WithRedirectUri(uri)
    \/ \E b \in BOOLEAN : SetShowDialog(b)
    \/ AuthUrlCall

UrlSpec == UrlInit /\ [][UrlNext]_vars

\* ================================================================ properties
Finished(h) == handlers[h].pc \in {"done", "panicked"}
Range(t) == {t[i] : i \in 1..Len(t)}
TokenReturned == op = "token" /\ cPc = "idle"

\* C1: main reads the shared slot (to hand it to token()) only after the
\* spawned connection handler task has completed: while main is inside
\* token() with the slot borrowed, every spawned handler has finished.
C1_SlotReadAfterHandler ==
    mPc = "token" => \A h \in DOMAIN handlers : Finished(h)

\* C2 as stated: when a handler whose read returned N > 0 bytes has finished,
\* the bytes of the slot's text are exactly the N bytes read; after a read of
\* 0 bytes the slot still has its initial empty value.
C2_SlotHoldsExactBytes ==
    \A h \in DOMAIN handlers :
        Finished(h) =>
            IF handlers[h].n > 0
            THEN AsBytes(auth_code) = handlers[h].buffer
            ELSE auth_code = <<>>

\* C2 amended: when a handler whose read returned N > 0 bytes (N <= 512) has
\* finished, the slot holds the lossy UTF-8 decoding of those N bytes: the
\* same bytes when no U+FFFD was produced, U+FFFD in place of each invalid
\* sequence otherwise; after a read of 0 bytes the slot is still empty.
C2_SlotHoldsLossyText ==
    \A h \in DOMAIN handlers :
        Finished(h) =>
            IF handlers[h].n > 0
            THEN /\ handlers[h].n = Len(handlers[h].buffer)
                 /\ handlers[h].n <= BufSize
                 /\ auth_code = FromUtf8Lossy(handlers[h].buffer)
                 /\ Replacement \notin Range(auth_code)
                        => AsBytes(auth_code) = handlers[h].buffer
            ELSE auth_code = <<>>

C2_Witness ==
    \E h \in DOMAIN handlers :
        /\ Finished(h)
        /\ handlers[h].n > 0
        /\ Replacement \in Range(auth_code)
        /\ Len(auth_code) = Len(handlers[h].buffer)

\* C3: when the token file holds a non-empty string at the call of token(),
\* token() returns exactly that string, the in-memory token is that string,
\* and the call sends no POST and creates or writes no token file.
C3_FastPathNoNetwork ==
    (op = "token" /\ fileAtCall.state = "text" /\ Len(fileAtCall.text) > 0)
        => /\ posts = 0
           /\ fileWrites = 0
           /\ tokenFile = fileAtCall
           /\ cPc \in {"t_disk", "t_check", "idle"}
           /\ cPc = "idle" => /\ tokenRet = Ok(fileAtCall.text)
                              /\ token = Some(fileAtCall.text)

C3_Witness ==
    /\ TokenReturned
    /\ fileAtCall.state = "text"
    /\ Len(fileAtCall.text) > 0
    /\ tokenRet.state = "ok"

\* C4: when token() took the exchange path and the response decoded with
\* access token T, token() returns Ok(T), the in-memory token is T and the
\* token file holds exactly T.
C4_ExchangePersistsToken ==
    (TokenReturned /\ httpRes = "ok")
        => /\ tokenRet = Ok(data.access_token)
           /\ token = Some(data.access_token)
           /\ tokenFile = Text(data.access_token)

C4_Witness ==
    /\ TokenReturned
    /\ httpRes = "ok"
    /\ posts = 1
    /\ Len(data.access_token) > 0

C6_FailureNoRetryNoPersist ==
    /\ posts <= 1
    /\ (TokenReturned /\ httpRes \in {"transport_err", "decode_err"})
           => /\ tokenRet.state = "err"
              /\ posts = 1
              /\ tokenFile = fileAtExchange

C6_Witness ==
    /\ TokenReturned
    /\ httpRes = "transport_err"
    /\ tokenRet.state = "err"

\* C7: while no token has been obtained (no non-empty token loaded from disk,
\* no token returned by an exchange), a call of get_currently_playing aborts
\* at its precondition and sends no GET.
C7_NoGetWithoutToken ==
    (op = "get" /\ ~obtained) => (gets = 0 /\ cPc \in {"g_hdr", "aborted"})

\* C8: the listener accepts at most one connection and spawns at most one
\* handler; the slot is written at most once and at most one handler is ever
\* between its read and the end of its write section.
Writers == {h \in DOMAIN handlers : handlers[h].pc \in {"store", "ack"}}
C8_SingleAcceptSingleWriter ==
    /\ accepts <= 1
    /\ Len(handlers) <= 1
    /\ slotWrites <= 1
    /\ Cardinality(Writers) <= 1

C8_Witness ==
    /\ accepts = 1
    /\ slotWrites = 1
    /\ lPc = "done"
    /\ \E h \in DOMAIN handlers : Finished(h)

\* C9: once bind has failed, bind was called exactly once, token() and
\* get_currently_playing have not been and cannot be called: main is before
\* its join or has terminated by panic.
C9_BindFailureFatal ==
    /\ binds <= 1
    /\ lPc = "panicked"
           => /\ binds = 1
              /\ tokenCalls = 0
              /\ getCalls = 0
              /\ mPc \in {"browser", "join", "panicked"}

C9_Witness ==
    /\ lPc = "panicked"
    /\ mPc = "panicked"
    /\ browserOpens = 1

\* C10: after a handler's read or acknowledgment write failed, the listener
\* task has completed normally, the handler does not hold the slot lock, and
\* main's join yields success and its lock acquisition is possible.
C10_HandlerFailureContained ==
    \A h \in DOMAIN handlers :
        handlers[h].fail # "none"
            => /\ Finished(h)
               /\ lPc = "done"
               /\ lockHolder.who # "handler"
               /\ mPc = "join" => JoinResult(lPc) = "lock"
               /\ mPc = "lock" => lockHolder = Free

C10_Witness ==
    \E h \in DOMAIN handlers :
        /\ handlers[h].fail = "write"
        /\ handlers[h].n > 0
        /\ mPc = "token"
        /\ codeArg = auth_code
        /\ auth_code # <<>>


\* C11: as long as no connection has reached the listener (it has accepted
\* none and has not ended), token() and get_currently_playing have not been
\* called and main has not passed its join; with the listener waiting in
\* accept, main's join cannot complete.
C11_BlockedWithoutConnection ==
    (accepts = 0 /\ lPc \in {"none", "bind", "accept"})
        => /\ tokenCalls = 0
           /\ getCalls = 0
           /\ mPc \in {"spawn", "browser", "join", "panicked"}
           /\ (mPc = "join" /\ lPc = "accept") => ~ENABLED MainJoin

C11_Witness ==
    /\ accepts = 0
    /\ lPc = "accept"
    /\ mPc = "join"
    /\ browserOpens = 1


\* reading a URL back: the query after the base, cut at "&" and at the first
\* "=", each value percent-decoded
ReservedChars == {" ", "%", "&", "/", ":", "=", "?"}
IsHex(c) == \E k \in 1..Len(HexDigits) : HexDigits[k] = c
HexVal(c) == (CHOOSE k \in 1..Len(HexDigits) : HexDigits[k] = c) - 1
IsEscape(t, i) ==
    /\ t[i] = "%"
    /\ i + 2 <= Len(t)
    /\ IsHex(t[i + 1])
    /\ IsHex(t[i + 2])
    /\ \E c \in ReservedChars :
           CharCode(c) = (HexVal(t[i + 1]) * 16) + HexVal(t[i + 2])
Unescaped(t, i) ==
    CHOOSE c \in ReservedChars :
        CharCode(c) = (HexVal(t[i + 1]) * 16) + HexVal(t[i + 2])
RECURSIVE PercentDecodeFrom(_, _)
PercentDecodeFrom(t, i) ==
    IF i > Len(t) THEN <<>>
    ELSE IF IsEscape(t, i)
         THEN <<Unescaped(t, i)>> \o PercentDecodeFrom(t, i + 3)
         ELSE <<t[i]>> \o PercentDecodeFrom(t, i + 1)
PercentDecode(t) == PercentDecodeFrom(t, 1)

Positions(t, c) == {i \in 1..Len(t) : t[i] = c}
\* the k-th piece of t cut at every c
Piece(t, c, k) ==
    LET cuts == Positions(t, c)
        nth(m) == CHOOSE i \in cuts : Cardinality({j \in cuts : j < i}) = m - 1
        from == IF k = 1 THEN 1 ELSE nth(k - 1) + 1
        to == IF k = Cardinality(cuts) + 1 THEN Len(t) ELSE nth(k) - 1
    IN  SubSeq(t, from, to)
Pieces(t, c) == [k \in 1..(Cardinality(Positions(t, c)) + 1) |-> Piece(t, c, k)]
NameValue(p) ==
    LET eqs == Positions(p, "=")
    IN  IF eqs = {} THEN <<p, <<>>>>
        ELSE LET e == CHOOSE i \in eqs : \A j \in eqs : i <= j
             IN  <<SubSeq(p, 1, e - 1), PercentDecode(SubSeq(p, e + 1, Len(p)))>>
HasBase(url) ==
    /\ Len(url) > Len(AuthorizeBase)
    /\ SubSeq(url, 1, Len(AuthorizeBase)) = AuthorizeBase
    /\ url[Len(AuthorizeBase) + 1] = "?"
QueryParams(url) ==
    LET ps == Pieces(SubSeq(url, Len(AuthorizeBase) + 2, Len(url)), "&")
    IN  [k \in 1..Len(ps) |-> NameValue(ps[k])]
ExpectedParams(cfg) ==
    << <<<<"c", "l", "i", "e", "n", "t", "_", "i", "d">>, cfg.client_id>>,
       <<<<"r", "e", "s", "p", "o", "n", "s", "e", "_", "t", "y", "p", "e">>,
         <<"c", "o", "d", "e">>>>,
       <<<<"r", "e", "d", "i", "r", "e", "c", "t", "_", "u", "r", "i">>,
         cfg.redirect_uri>>,
       <<<<"s", "t", "a", "t", "e">>,
         IF cfg.state.some THEN cfg.state.val ELSE <<>>>>,
       <<<<"s", "c", "o", "p", "e">>,
         IF cfg.scope.some THEN cfg.scope.val ELSE <<>>>>,
       <<<<"s", "h", "o", "w", "_", "d", "i", "a", "l", "o", "g">>,
         IF cfg.show_dialog THEN <<"t", "r", "u", "e">>
         ELSE <<"f", "a", "l", "s", "e">>>> >>

\* C12: whenever auth_url() returns, the configuration is as before the call
\* and the URL is the authorize base followed by exactly the parameters
\* client_id, response_type=code, redirect_uri, state, scope, show_dialog in
\* that order, whose decoded values are the configuration's (empty for an
\* unset state or scope, "true"/"false" for show_dialog).
C12_AuthUrlParams ==
    [][auth_url' # auth_url
          => /\ spotify' = spotify
             /\ HasBase(auth_url')
             /\ QueryParams(auth_url') = ExpectedParams(spotify)]_vars

C12_Witness ==
    /\ auth_url # <<>>
    /\ auth_url = AuthUrl(spotify)
    /\ ~spotify.state.some
    /\ spotify.scope.some
    /\ "&" \in Range(spotify.client_id)
    /\ spotify.show_dialog


\* C13: once main has taken the result of get_currently_playing, a decoded
\* response with an item and at least one album artist has not made main
\* panic, and the artist name in the display record is the name of the first
\* artist of the item's album.
C13_FirstAlbumArtistShown ==
    (mPc \in {"ui", "panicked"} /\ op = "get" /\ cPc = "idle"
     /\ getRet.state = "ok" /\ getRet.item /\ Len(getRet.artists) >= 1)
        => /\ mPc = "ui"
           /\ artist_name = getRet.artists[1]

C13_Witness ==
    /\ mPc = "ui"
    /\ Len(getRet.artists) = 2
    /\ getRet.artists[1] = "Radiohead"
    /\ getRet.artists[2] # "Radiohead"
    /\ artist_name = "Radiohead"


\* C14: on the exchange path the code field of the POST body is the text the
\* loopback receiver left in the shared slot, which main handed to token().
C14_PostCarriesSlotText ==
    (mPc = "token" /\ posts >= 1 /\ slotWrites = 1)
        => /\ codeArg = auth_code
           /\ postCode = codeArg


\* C15: the slot lock never deadlocks: a held lock is released, a handler
\* waiting for the lock gets past its wait, and main waiting for the lock
\* gets past its wait, given that socket writes and the HTTP exchange end.
HandlerWaiting == \E h \in DOMAIN handlers : handlers[h].pc = "store"
C15_LockNoDeadlock ==
    /\ (lockHolder # Free) ~> (lockHolder = Free)
    /\ HandlerWaiting ~> ~HandlerWaiting
    /\ (mPc = "lock") ~> (mPc # "lock")

\* main took the lock first (it read an empty slot) and the handler acquired
\* it afterwards
C15_Witness ==
    /\ tokenCalls = 1
    /\ codeArg = <<>>
    /\ slotWrites = 1
    /\ auth_code # <<>>
    /\ \E h \in DOMAIN handlers : handlers[h].pc = "done" /\ handlers[h].n > 0


\* C16: every call of token() by main is made after the browser was opened
\* and the listener task ended (its accept() returned), whatever the token
\* file holds; when token() returns the cached token, no POST was sent, and
\* the browser and the wait still came first.
C16_BrowserAndWaitBeforeToken ==
    [][/\ tokenCalls' # tokenCalls
            => /\ browserOpens = 1
               /\ lPc = "done"
               /\ mPc = "lock"
       /\ (tokenRet' # tokenRet /\ FastPath(disk_token))
            => /\ posts' = 0
               /\ browserOpens' = 1
               /\ lPc' = "done"]_vars

C16_Witness ==
    /\ tokenCalls = 1
    /\ fileAtCall.state = "text"
    /\ fileAtCall.text # <<>>
    /\ tokenRet.state = "ok"
    /\ posts = 0
    /\ browserOpens = 1
    /\ lPc = "done"
    /\ accepts = 1

====
